---- MODULE Spec2Model ----
(***************************************************************************)
(* Model of the lofi-camera host programs:                                 *)
(*   - the batch downloaders  Agfa35/QuickDownload/GetImages.py and        *)
(*     Kodak12/QuickDownload/GetImages.py;                                 *)
(*   - the live streamer Agfa35/LiveStream/livestream.py.                  *)
(* Spec runs either program, chosen by Init.  SpecReconfigure runs the     *)
(* streamer and traces each average to the frames that went into it.       *)
(* SpecExposure follows one                                                *)
(* stream loop through its exposure windows with no handler interleaved;   *)
(* SpecTyped adds update_exposure with numbers typed into the spinbox;     *)
(* SpecRestart has start_stream and stop_stream with room for two loop     *)
(* threads, SpecRestartFair schedules those threads fairly;                *)
(* SpecPollFair keeps the downloader's loops running, idle passes          *)
(* included; SpecTwin runs the Kodak12 downloader beside the Agfa35 one    *)
(* on the same camera events.                                              *)
(*                                                                         *)
(* A received line is modelled after .decode().strip() as the sequence of  *)
(* its comma separated fields.  A field is a record                        *)
(*   [k |-> "int", v |-> n, s |-> ""]  a decimal literal, possibly padded  *)
(*                                      with blanks, that int() reads as n *)
(*   [k |-> "txt", v |-> 0, s |-> t]    any other text t ("" is the empty  *)
(*                                      field, " " a field of blanks)      *)
(***************************************************************************)
EXTENDS Integers, Sequences, FiniteSets, TLC

\* ------------------------------------------------------------------ bounds

\* Largest --max-images argument explored.
MaxImagesArg == 2
\* Lines the device may have written that the host has not read yet.
MaxRx == 1
\* stream_loop threads that exist at the same time.
MaxLoops == 1
\* Largest count set with the arrows of the exposure spinbox.
MaxExposureInput == 2
\* Frames the stream loop accepts in a run that follows the exposure windows.
MaxFrames == 4

\* --------------------------------------------------------- fields and lines

I(n) == [k |-> "int", v |-> n, s |-> ""]
T(t) == [k |-> "txt", v |-> 0, s |-> t]

\* pixel.strip() is falsy: the empty field and the field of blanks.
IsBlank(tok) == tok.k = "txt" /\ tok.s \in {"", " "}

\* int(pixel.strip()) succeeds.
IsInt(tok) == tok.k = "int"

\* `sub in text` for the texts the model's lines are built from.
TextHas_Exact(t, sub) == t = sub
TextHas_AnyMarker(t, sub) == t \in {"BEGIN", "Ready BEGIN now", "END", "Download END ok"}
TextHas(t, sub) ==
    CASE sub = "BEGIN" -> t \in {"BEGIN", "Ready BEGIN now"}
      [] sub = "END"   -> t \in {"END", "Download END ok"}
      [] OTHER         -> t = sub

\* `sub in line`: a marker has no comma, so it lies inside one field.
Contains(line, sub) == \E i \in 1..Len(line) : line[i].k = "txt" /\ TextHas(line[i].s, sub)

\* line.startswith(tag + ",") and line.endswith("," + tag)
Framed(line, tag) == Len(line) >= 2 /\ line[1] = T(tag) /\ line[Len(line)] = T(tag)

\* line[len(tag)+1 : -(len(tag)+1)].split(','): the fields between the two tags;
\* when the tags share the only comma the slice is "" and split gives [""].
Body(line) == IF Len(line) = 2 THEN <<T("")>> ELSE SubSeq(line, 2, Len(line) - 1)

Min(a, b) == IF a < b THEN a ELSE b
Max(a, b) == IF a > b THEN a ELSE b

\* ------------------------------------------------------- device profiles

Profiles == {"Agfa35", "Kodak12"}

pixels_per_image(p) == IF p = "Agfa35" THEN 35 ELSE 12
max_pixel_value(p)  == IF p = "Agfa35" THEN 65535 ELSE 255
default_max_images(p) == IF p = "Agfa35" THEN 14 ELSE 20
ReadyBanner(p) == IF p = "Agfa35" THEN "Agfa35 Camera V2 Ready" ELSE "Kodak12 Camera V2 Ready"

\* wait_for_begin's timeout, in seconds.
timeout == 30

\* The streamer's sensor geometry.
image_width == 7
image_height == 5
total_pixels == image_width * image_height
max_exposure_frames == 20

\* ------------------------------------------------------------ the decoders

\* Python's None, and a returned list.
None == [some |-> FALSE, val |-> <<>>]
Some(x) == [some |-> TRUE, val |-> x]

\* max(0, min(max_pixel_value, value))
Clamp_NoFloor(value, hi) == Min(hi, value)
Clamp(value, hi) == Max(0, Min(hi, value))

\* The for loop of parse_image_data: blank fields are skipped, the first field
\* int() rejects returns None, every other one is clamped and appended.
RECURSIVE ParseLoop(_, _, _, _)
ParseLoop(pixel_values, i, pixels, hi) ==
    IF i > Len(pixel_values) THEN Some(pixels)
    ELSE IF IsBlank(pixel_values[i]) THEN ParseLoop(pixel_values, i + 1, pixels, hi)
    ELSE IF IsInt(pixel_values[i])
         THEN ParseLoop(pixel_values, i + 1, Append(pixels, Clamp(pixel_values[i].v, hi)), hi)
         ELSE None

\* parse_image_data without the check of the pixel count.
parse_image_data_NoCount(data_line, p) ==
    IF Framed(data_line, "IMAGE")
    THEN ParseLoop(Body(data_line), 1, <<>>, max_pixel_value(p))
    ELSE None

parse_image_data(data_line, p) ==
    IF Framed(data_line, "IMAGE")
    THEN LET r == ParseLoop(Body(data_line), 1, <<>>, max_pixel_value(p))
         IN  IF r.some /\ Len(r.val) = pixels_per_image(p) THEN r ELSE None
    ELSE None

\* `if pixels:` a returned list counts when it is not empty.
Truthy_Always(r) == TRUE
Truthy(r) == r.some /\ r.val # <<>>

\* ------------------------------------------------------------ input lines

Ramp(n, lo, step) == [i \in 1..n |-> I(lo + (i - 1) * step)]
WithField(body, pos, tok) == [i \in 1..Len(body) |-> IF i = pos THEN tok ELSE body[i]]
InsertField(body, pos, tok) == SubSeq(body, 1, pos - 1) \o <<tok>> \o SubSeq(body, pos, Len(body))
Frame(tag, body) == <<T(tag)>> \o body \o <<T(tag)>>

\* In-range values 0, s, 2s, ... and a ramp that starts below 0 and ends above
\* the profile's maximum.
InRange(p, n) == Ramp(n, 0, max_pixel_value(p) \div pixels_per_image(p))
OutOfRange(p, n) ==
    LET step == max_pixel_value(p) \div (pixels_per_image(p) - 4)
    IN  Ramp(n, 0 - 2 * step, step)

Positions(n) == {1, n}

\* Lines with no data framing: markers, banners, noise.
PlainLines(p) ==
    { <<T(t)>> : t \in {"BEGIN", "Ready BEGIN now", "END", "Download END ok",
                        ReadyBanner(p), ""} }

\* Data records of n = pixels_per_image fields and their damaged variants.
DataLines(p, tag) ==
    LET n == pixels_per_image(p) IN
      { Frame(tag, InRange(p, n)), Frame(tag, OutOfRange(p, n)),
        Frame(tag, InsertField(InRange(p, n), n + 1, T(""))) }
    \cup { Frame(tag, InRange(p, m)) : m \in {n - 1, n + 1} }
    \cup { Frame(tag, WithField(InRange(p, n), pos, T("x"))) : pos \in Positions(n) }
    \cup { Frame(tag, WithField(InRange(p, n), 2, T(" "))),
           Frame(tag, <<T("END")>>), <<T(tag)>> \o InRange(p, n), InRange(p, n) \o <<T(tag)>>,
           <<T(tag), T(tag)>> }

BatchLines(p) == PlainLines(p) \cup DataLines(p, "IMAGE")

\* ------------------------------------------------------------------ state

VARIABLES
    \* batch downloader (GetImages.py)
    profile,            \* which downloader runs: "Agfa35" or "Kodak12"
    max_images,         \* self.max_images, set from --max-images
    b_pc,               \* position in download_images
    serial_connection,  \* self.serial_connection: "none", "open" or "closed"
    image_count,        \* download_images' local image_count
    elapsed,            \* seconds since wait_for_begin took start_time (0 once it returned True)
    rx,                 \* lines written by the device and not read yet
    save_calls,         \* the calls of save_image made so far, in order
    result,             \* what download_images returned: "pending", "True", "False"
    valid_read,         \* history: well-formed IMAGE records read while collecting
    rejected_since,     \* history: a line was read and dropped since the wait began, since
                        \* BEGIN or since the last save_image call, whichever came last
    ended_by,           \* history: what ended the session, "pending" while it goes on
    summary,            \* the download summary written, None while there is none
    idle_polls,         \* history, kept by SpecPollFair: the passes of the collecting
                        \* loop that found no line waiting, modulo 2
    twin                \* kept by SpecTwin: the Kodak12 downloader run beside the Agfa35
                        \* one, a record of its fields

batch_vars == <<profile, max_images, b_pc, serial_connection, image_count, elapsed,
                rx, save_calls, result, valid_read, rejected_since>>
batch_hist == <<ended_by, summary, idle_polls>>

VARIABLES
    \* live streamer (livestream.py)
    app,             \* "off" (the streamer is not the program run), "running" (Tk mainloop), "exited"
    ui_pc,           \* where the Tk thread stands: "idle" (between handlers) or "ue"
                     \* (update_exposure has set exposure_frames and not yet cleared)
    serial_port,     \* self.serial_port: "none", "open" or "closed"
    streaming,       \* self.streaming
    start_button,    \* state of the Start Stream button: "disabled" or "normal"
    stop_button,     \* state of the Stop Stream button
    exposure_frames, \* self.exposure_frames
    exposure_buffer, \* self.exposure_buffer: the frames of the current window
    current_frame,   \* self.current_frame, row-major
    pc,              \* pc[t]: where stream_loop thread t stands
    line,            \* line[t]: thread t's local line, the last line it read
    combined,        \* combined[t]: thread t's local combined_frame
    applied,         \* history: exposure_frames as the last completed update_exposure
                     \* call left it; 0 before the first
    comb_info,       \* history: comb_info[t].n frames went into combined[t]; .stale: an
                     \* update_exposure call completed after they did
    accepted,        \* history, kept by SpecExposure: the frames the loop appended, in order
    shown,           \* history, kept by SpecExposure: the frames handed to update_display
    drawn_by         \* history, kept by SpecExposure: the thread that ran the last canvas
                     \* update, "none" before the first

stream_vars == <<app, ui_pc, serial_port, streaming, start_button, stop_button,
                 exposure_frames, exposure_buffer, current_frame, pc, line, combined>>
stream_hist == <<applied, comb_info>>
exposure_hist == <<accepted, shown, drawn_by>>

vars == <<batch_vars, batch_hist, twin, stream_vars, stream_hist, exposure_hist>>

\* ------------------------------------------------- batch: download_images

\* A well-formed IMAGE record, by the wire format: framed by IMAGE, and its
\* non-blank fields are exactly pixels_per_image integers.
NonBlank(body) == {i \in 1..Len(body) : ~IsBlank(body[i])}
ValidRecord(l, tag, n) ==
    /\ Framed(l, tag)
    /\ LET body == Body(l)
           fields == NonBlank(body)
       IN  /\ \A i \in fields : IsInt(body[i])
           /\ Cardinality(fields) = n

BatchInit ==
    /\ profile \in Profiles
    /\ max_images \in 0..MaxImagesArg
    /\ b_pc = "start"
    /\ serial_connection = "none"
    /\ image_count = 0
    /\ elapsed = 0
    /\ rx = <<>>
    /\ save_calls = <<>>
    /\ result = "pending"
    /\ valid_read = 0
    /\ rejected_since = FALSE

\* disconnect(): close the connection when there is one and it is open.
disconnect_Never(conn) == conn
disconnect(conn) == IF conn = "open" THEN "closed" ELSE conn

\* download_images returns r from inside the try block: the finally clause
\* disconnects.
ReturnFromTry(r) ==
    /\ result' = r
    /\ serial_connection' = disconnect(serial_connection)
    /\ b_pc' = "returned"

\* connect(): serial.Serial(...) opens the port, or fails and download_images
\* returns False before its try block.
Connect ==
    /\ b_pc = "start"
    /\ \E ok \in BOOLEAN :
         IF ok THEN /\ serial_connection' = "open"
                    /\ b_pc' = "wait"
                    /\ result' = result
               ELSE /\ serial_connection' = "none"
                    /\ b_pc' = "returned"
                    /\ result' = "False"
    /\ UNCHANGED <<profile, max_images, image_count, elapsed, rx, save_calls,
                   valid_read, rejected_since>>

\* The device writes a line, one of `lines`, to the serial link.
DeviceSendFrom(lines) ==
    /\ serial_connection = "open"
    /\ Len(rx) < MaxRx
    /\ \E l \in lines : rx' = Append(rx, l)
    /\ UNCHANGED <<profile, max_images, b_pc, serial_connection, image_count, elapsed,
                   save_calls, result, valid_read, rejected_since>>

DeviceSend == DeviceSendFrom(BatchLines(profile))

\* `while time.time() - start_time < timeout` is false.
WaitExpired_AtOnce(e) == e >= 0
WaitExpired(e) == e >= timeout

\* One iteration of wait_for_begin's loop: read a line when one is waiting,
\* return True when it contains BEGIN, sleep.  d is the time the iteration took.
WaitPoll ==
    /\ b_pc = "wait"
    /\ ~WaitExpired(elapsed)
    /\ IF rx # <<>> /\ Contains(Head(rx), "BEGIN")
       THEN /\ rx' = Tail(rx)
            /\ b_pc' = "collect"
            /\ image_count' = 0
            /\ elapsed' = 0
            /\ rejected_since' = FALSE
       ELSE /\ rx' = IF rx # <<>> THEN Tail(rx) ELSE rx
            /\ rejected_since' = (rejected_since \/ rx # <<>>)
            /\ \E d \in {0, 10} : elapsed' = Min(timeout, elapsed + d)
            /\ UNCHANGED <<b_pc, image_count>>
    /\ UNCHANGED <<profile, max_images, serial_connection, save_calls, result,
                   valid_read>>

\* wait_for_begin's loop ends on the deadline and returns False: "Camera not
\* ready", download_images returns False.
WaitTimeout ==
    /\ b_pc = "wait"
    /\ WaitExpired(elapsed)
    /\ ReturnFromTry("False")
    /\ UNCHANGED <<profile, max_images, image_count, elapsed, rx, save_calls,
                   valid_read, rejected_since>>

\* `while image_count < self.max_images`
LoopContinues_OffByOne(count, m) == count <= m
LoopContinues(count, m) == count < m

\* image_count after a line that was framed as an IMAGE record.
CountAfter_AlwaysBump(count, pixels) == count + 1
CountAfter(count, pixels) == IF Truthy(pixels) THEN count + 1 ELSE count

\* `elif "END" in line: break`
EndsSession_Exact(l) == l = <<T("END")>>
EndsSession(l) == Contains(l, "END")

\* One iteration of the collecting loop with a line waiting.  save_image may
\* raise (the disk): the call was made, the exception leaves the loop.
Collect ==
    /\ b_pc = "collect"
    /\ LoopContinues(image_count, max_images)
    /\ rx # <<>>
    /\ rx' = Tail(rx)
    /\ LET l == Head(rx)
           pixels == parse_image_data(l, profile)
       IN  /\ valid_read' = IF ValidRecord(l, "IMAGE", pixels_per_image(profile))
                            THEN valid_read + 1 ELSE valid_read
           /\ IF Framed(l, "IMAGE")
              THEN IF Truthy(pixels)
                   THEN /\ save_calls' = Append(save_calls,
                                [image_number |-> image_count, pixels |-> pixels.val,
                                 line |-> l])
                        /\ rejected_since' = FALSE
                        /\ \E saved \in BOOLEAN :
                             IF saved
                             THEN /\ image_count' = CountAfter(image_count, pixels)
                                  /\ UNCHANGED <<b_pc, result, serial_connection>>
                             ELSE /\ ReturnFromTry("False")
                                  /\ image_count' = image_count
                   ELSE /\ image_count' = CountAfter(image_count, pixels)
                        /\ rejected_since' = TRUE
                        /\ UNCHANGED <<save_calls, b_pc, result, serial_connection>>
              ELSE IF EndsSession(l)
                   THEN /\ b_pc' = "summary"
                        /\ UNCHANGED <<save_calls, image_count, result, serial_connection,
                                       rejected_since>>
                   ELSE /\ rejected_since' = TRUE
                        /\ UNCHANGED <<save_calls, image_count, b_pc, result,
                                       serial_connection>>
    /\ UNCHANGED <<profile, max_images, elapsed>>

\* The while condition fails: max_images reached.
CollectFull ==
    /\ b_pc = "collect"
    /\ ~LoopContinues(image_count, max_images)
    /\ b_pc' = "summary"
    /\ UNCHANGED <<profile, max_images, serial_connection, image_count, elapsed, rx,
                   save_calls, result, valid_read, rejected_since>>

\* After the loop: the download summary is written and True returned, or writing
\* it raises and False is returned.
Summary ==
    /\ b_pc = "summary"
    /\ \E written \in BOOLEAN : ReturnFromTry(IF written THEN "True" ELSE "False")
    /\ UNCHANGED <<profile, max_images, image_count, elapsed, rx, save_calls,
                   valid_read, rejected_since>>

\* in_waiting or readline raises (the device is unplugged): the except clause
\* of download_images returns False.
TransportError ==
    /\ b_pc \in {"wait", "collect"}
    /\ ReturnFromTry("False")
    /\ elapsed' = 0
    /\ UNCHANGED <<profile, max_images, image_count, rx, save_calls,
                   valid_read, rejected_since>>

\* ---------------------------------------------- batch: with history

\* What download_images writes to download_summary_*.json for a final count.
download_metadata_Zero(count) == [images_downloaded |-> 0, total_images_found |-> count]
download_metadata(count) == [images_downloaded |-> count, total_images_found |-> count]

\* No second downloader runs.
NoTwin == [b_pc |-> "off"]

BatchHistInit ==
    /\ ended_by = "pending"
    /\ summary = None
    /\ idle_polls = 0
    /\ twin = NoTwin

HConnect ==
    /\ Connect
    /\ ended_by' = IF b_pc' = "returned" THEN "connect-failed" ELSE ended_by
    /\ UNCHANGED <<summary, idle_polls>>

HWaitTimeout ==
    /\ WaitTimeout
    /\ ended_by' = "Begin-timeout"
    /\ UNCHANGED <<summary, idle_polls>>

HCollect ==
    /\ Collect
    /\ ended_by' = CASE b_pc' = "summary"  -> "End-marker"
                      [] b_pc' = "returned" -> "persist-error"
                      [] OTHER              -> ended_by
    /\ UNCHANGED <<summary, idle_polls>>

HCollectFull ==
    /\ CollectFull
    /\ ended_by' = "max-images-reached"
    /\ UNCHANGED <<summary, idle_polls>>

HSummary ==
    /\ Summary
    /\ summary' = IF result' = "True" THEN Some(download_metadata(image_count)) ELSE summary
    /\ UNCHANGED <<ended_by, idle_polls>>

HTransportError ==
    /\ TransportError
    /\ ended_by' = "channel-error"
    /\ UNCHANGED <<summary, idle_polls>>

\* A step of the downloader that leaves the history as it is, and one that
\* records: the streamer is not running.
BatchStep(A) == A /\ UNCHANGED <<batch_hist, twin, stream_vars, stream_hist, exposure_hist>>
BatchHStep(A) == A /\ UNCHANGED <<twin, stream_vars, stream_hist, exposure_hist>>

BatchNext ==
    \/ BatchHStep(HConnect)
    \/ BatchStep(DeviceSend)
    \/ BatchStep(WaitPoll)
    \/ BatchHStep(HWaitTimeout)
    \/ BatchHStep(HCollect)
    \/ BatchHStep(HCollectFull)
    \/ BatchHStep(HSummary)
    \/ BatchHStep(HTransportError)


\* --------------------------------------------------- streamer: stream_loop

Loops == 1..MaxLoops
ExposureInputs == 1..MaxExposureInput

\* max(0, min(255, value // 256))
StreamPixel_NoFloor(value) == Min(255, value \div 256)
StreamPixel(value) == Max(0, Min(255, value \div 256))

\* The for loop of stream_loop: blank fields are skipped, a field int() rejects
\* is skipped too (continue), every other one is scaled and appended.
RECURSIVE StreamPixels(_, _, _)
StreamPixels(pixel_values, i, pixels) ==
    IF i > Len(pixel_values) THEN pixels
    ELSE IF IsInt(pixel_values[i])
         THEN StreamPixels(pixel_values, i + 1, Append(pixels, StreamPixel(pixel_values[i].v)))
         ELSE StreamPixels(pixel_values, i + 1, pixels)

\* The decoder without the second count, of the values that parsed.
stream_decode_NoRecount(l) ==
    IF Framed(l, "STREAM") /\ Len(Body(l)) = total_pixels
    THEN Some(StreamPixels(Body(l), 1, <<>>))
    ELSE None

\* Lines 151-166: the frame a line yields, or None.
stream_decode(l) ==
    IF Framed(l, "STREAM") /\ Len(Body(l)) = total_pixels
    THEN LET pixels == StreamPixels(Body(l), 1, <<>>)
         IN  IF Len(pixels) = total_pixels THEN Some(pixels) ELSE None
    ELSE None

RECURSIVE SumAt(_, _)
SumAt(frames, i) == IF frames = <<>> THEN 0 ELSE Head(frames)[i] + SumAt(Tail(frames), i)

\* np.mean(frames, axis=0).astype(np.uint8): the mean of values in 0..255,
\* cut to its integer part.
MeanFrame_Nearest(frames) ==
    [i \in 1..total_pixels |-> (2 * SumAt(frames, i) + Len(frames)) \div (2 * Len(frames))]
MeanFrame(frames) == [i \in 1..total_pixels |-> SumAt(frames, i) \div Len(frames)]

\* What the cast of nan (the mean of no frame) to uint8 may give.
NanCast == {0, 255}

\* No combined_frame yet, no line read yet.
NoCombined == <<>>
NoLine == <<>>

\* What the camera may write: a well-formed frame, and damaged or foreign lines.
StreamLines ==
    LET n == total_pixels
        good == Ramp(n, 256, 768)
    IN  { Frame("STREAM", good),
          Frame("STREAM", Ramp(n - 1, 256, 768)),
          Frame("STREAM", WithField(good, n, T("x"))),
          Frame("STREAM", WithField(good, 2, T(""))),
          Frame("STREAM", InsertField(good, n + 1, T(""))),
          Frame("IMAGE", good) }

StreamInit ==
    /\ app = "running"
    /\ ui_pc = "idle"
    /\ serial_port = "none"
    /\ streaming = FALSE
    /\ start_button = "disabled"
    /\ stop_button = "disabled"
    /\ exposure_frames = 1
    /\ exposure_buffer = <<>>
    /\ current_frame = [i \in 1..total_pixels |-> 0]
    /\ line = [t \in Loops |-> NoLine]
    /\ pc = [t \in Loops |-> "none"]
    /\ combined = [t \in Loops |-> NoCombined]

Alive(t) == pc[t] \in {"loop", "check", "mean", "flush"}
Exited(t) == pc[t] \in {"stopped", "failed"}

\* `while self.streaming`
WhileStreaming_Forever(flag) == TRUE
WhileStreaming(flag) == flag

\* `while self.streaming` is false: the loop ends, and the thread's locals with it.
LoopStop(t) ==
    /\ app = "running"
    /\ pc[t] = "loop"
    /\ ~WhileStreaming(streaming)
    /\ pc' = [pc EXCEPT ![t] = "stopped"]
    /\ line' = [line EXCEPT ![t] = NoLine]
    /\ UNCHANGED <<app, ui_pc, serial_port, streaming, start_button, stop_button,
                   exposure_frames, exposure_buffer, current_frame, combined>>

\* in_waiting or readline raises: there is no port or it is closed, or the camera
\* was unplugged.  The except clause prints and breaks.
LoopFail(t) ==
    /\ app = "running"
    /\ pc[t] = "loop"
    /\ WhileStreaming(streaming)
    /\ pc' = [pc EXCEPT ![t] = "failed"]
    /\ line' = [line EXCEPT ![t] = NoLine]
    /\ UNCHANGED <<app, ui_pc, serial_port, streaming, start_button, stop_button,
                   exposure_frames, exposure_buffer, current_frame, combined>>

\* One iteration with a line waiting (in_waiting > 0): read it, decode it,
\* append the frame it yields.  The camera wrote one of `lines`.
LoopReadFrom(t, lines) ==
    /\ app = "running"
    /\ pc[t] = "loop"
    /\ WhileStreaming(streaming)
    /\ serial_port = "open"
    /\ \E l \in lines :
         /\ line' = [line EXCEPT ![t] = l]
         /\ LET frame == stream_decode(l)
            IN  IF frame.some
                THEN /\ exposure_buffer' = Append(exposure_buffer, frame.val)
                     /\ pc' = [pc EXCEPT ![t] = "check"]
                ELSE UNCHANGED <<exposure_buffer, pc>>
    /\ UNCHANGED <<app, ui_pc, serial_port, streaming, start_button, stop_button,
                   exposure_frames, current_frame, combined>>

LoopRead(t) == LoopReadFrom(t, StreamLines)

\* `if len(self.exposure_buffer) >= self.exposure_frames`
WindowFull(buffer, frames) == Len(buffer) >= frames

Check(t) ==
    /\ app = "running"
    /\ pc[t] = "check"
    /\ pc' = [pc EXCEPT ![t] = IF WindowFull(exposure_buffer, exposure_frames)
                                THEN "mean" ELSE "loop"]
    /\ UNCHANGED <<app, ui_pc, serial_port, streaming, start_button, stop_button,
                   exposure_frames, exposure_buffer, current_frame, line, combined>>

\* combined_frame = np.mean(self.exposure_buffer, axis=0).astype(np.uint8); of an
\* emptied buffer it is a single number, not a grid.
Mean(t) ==
    /\ app = "running"
    /\ pc[t] = "mean"
    /\ pc' = [pc EXCEPT ![t] = "flush"]
    /\ IF exposure_buffer # <<>>
       THEN combined' = [combined EXCEPT ![t] = MeanFrame(exposure_buffer)]
       ELSE \E v \in NanCast : combined' = [combined EXCEPT ![t] = <<v>>]
    /\ UNCHANGED <<app, ui_pc, serial_port, streaming, start_button, stop_button,
                   exposure_frames, exposure_buffer, current_frame, line>>

\* self.exposure_buffer = [] and self.update_display(combined_frame), on the
\* loop's thread: current_frame is set, then Image.fromarray raises on what is
\* not a grid and the loop breaks.
Flush(t) ==
    /\ app = "running"
    /\ pc[t] = "flush"
    /\ exposure_buffer' = <<>>
    /\ current_frame' = combined[t]
    /\ IF Len(combined[t]) = total_pixels
       THEN pc' = [pc EXCEPT ![t] = "loop"] /\ line' = line
       ELSE pc' = [pc EXCEPT ![t] = "failed"] /\ line' = [line EXCEPT ![t] = NoLine]
    /\ combined' = [combined EXCEPT ![t] = NoCombined]
    /\ UNCHANGED <<app, ui_pc, serial_port, streaming, start_button, stop_button,
                   exposure_frames>>

\* ------------------------------------------------ streamer: the Tk handlers

\* connect_camera: an open port is closed and forgotten; then no port is found
\* or serial.Serial raises (an error box), or the port opens and Start Stream
\* is enabled.
ConnectCamera ==
    /\ app = "running"
    /\ ui_pc = "idle"
    /\ \E opened \in BOOLEAN :
         IF opened
         THEN serial_port' = "open" /\ start_button' = "normal"
         ELSE /\ serial_port' = IF serial_port = "open" THEN "none" ELSE serial_port
              /\ UNCHANGED start_button
    /\ UNCHANGED <<app, ui_pc, streaming, stop_button, exposure_frames, exposure_buffer,
                   current_frame, pc, line, combined>>

\* The thread start_stream creates takes the first free place.
FreeLoop == CHOOSE t \in DOMAIN pc : ~Alive(t) /\ \A u \in DOMAIN pc : ~Alive(u) => t <= u

\* start_stream: an error box when no port is open; else the flag is set, the
\* buttons swapped and a new stream_loop thread started.
StartStream ==
    /\ app = "running"
    /\ ui_pc = "idle"
    /\ start_button = "normal"
    /\ IF serial_port # "open"
       THEN UNCHANGED <<streaming, start_button, stop_button, pc>>
       ELSE /\ \E t \in DOMAIN pc : ~Alive(t)
            /\ streaming' = TRUE
            /\ start_button' = "disabled"
            /\ stop_button' = "normal"
            /\ pc' = [pc EXCEPT ![FreeLoop] = "loop"]
    /\ UNCHANGED <<app, ui_pc, serial_port, exposure_frames, exposure_buffer,
                   current_frame, line, combined>>

\* stop_stream
StopStream ==
    /\ app = "running"
    /\ ui_pc = "idle"
    /\ stop_button = "normal"
    /\ streaming' = FALSE
    /\ start_button' = "normal"
    /\ stop_button' = "disabled"
    /\ UNCHANGED <<app, ui_pc, serial_port, exposure_frames, exposure_buffer,
                   current_frame, pc, line, combined>>

\* update_exposure, first statement: self.exposure_frames = self.exposure_var.get()
\* The spinbox holds one of `inputs`.
UpdateExposureSetFrom(inputs) ==
    /\ app = "running"
    /\ ui_pc = "idle"
    /\ ui_pc' = "ue"
    /\ \E n \in inputs : exposure_frames' = n
    /\ UNCHANGED <<app, serial_port, streaming, start_button, stop_button,
                   exposure_buffer, current_frame, pc, line, combined>>

UpdateExposureSet == UpdateExposureSetFrom(ExposureInputs)

\* update_exposure, second statement: self.exposure_buffer = []
UpdateExposureClear ==
    /\ app = "running"
    /\ ui_pc = "ue"
    /\ ui_pc' = "idle"
    /\ exposure_buffer' = <<>>
    /\ UNCHANGED <<app, serial_port, streaming, start_button, stop_button,
                   exposure_frames, current_frame, pc, line, combined>>

\* run(): the window is closed, mainloop returns, an open port is closed; the
\* process ends and takes its daemon threads with it.
ClosePort_Never(port) == port
ClosePort(port) == IF port = "open" THEN "closed" ELSE port

Quit ==
    /\ app = "running"
    /\ ui_pc = "idle"
    /\ app' = "exited"
    /\ serial_port' = ClosePort(serial_port)
    /\ line' = [t \in DOMAIN line |-> NoLine]
    /\ combined' = [t \in DOMAIN combined |-> NoCombined]
    /\ UNCHANGED <<ui_pc, streaming, start_button, stop_button, exposure_frames,
                   exposure_buffer, current_frame, pc>>

\* ------------------------------------------------- streamer: with history

NoInfo == [n |-> 0, stale |-> FALSE]

StreamHistInit ==
    /\ applied = 0
    /\ comb_info = [t \in Loops |-> NoInfo]

HMean(t) ==
    /\ Mean(t)
    /\ comb_info' = [comb_info EXCEPT ![t] = [n |-> Len(exposure_buffer), stale |-> FALSE]]
    /\ UNCHANGED applied

HFlush(t) ==
    /\ Flush(t)
    /\ comb_info' = [comb_info EXCEPT ![t] = NoInfo]
    /\ UNCHANGED applied

HUpdateExposureClear ==
    /\ UpdateExposureClear
    /\ applied' = exposure_frames
    /\ comb_info' = [t \in Loops |->
            IF pc[t] = "flush" THEN [comb_info[t] EXCEPT !.stale = TRUE]
            ELSE comb_info[t]]

\* A step of the streamer that leaves the history as it is, and one that
\* records: the downloader is not running.
StreamStep(A) == A /\ UNCHANGED <<batch_vars, batch_hist, twin, stream_hist, exposure_hist>>
StreamHStep(A) == A /\ UNCHANGED <<batch_vars, batch_hist, twin, exposure_hist>>

StreamNext ==
    \/ \E t \in Loops :
         \/ StreamStep(LoopStop(t))
         \/ StreamStep(LoopFail(t))
         \/ StreamStep(LoopRead(t))
         \/ StreamStep(Check(t))
         \/ StreamStep(Mean(t))
         \/ StreamStep(Flush(t))
    \/ StreamStep(ConnectCamera)
    \/ StreamStep(StartStream)
    \/ StreamStep(StopStream)
    \/ StreamStep(UpdateExposureSet)
    \/ StreamStep(UpdateExposureClear)
    \/ StreamStep(Quit)

\* ------------------------------------------------------ the two programs

\* The downloader is not the program run.
BatchOff ==
    /\ profile = "Agfa35"
    /\ max_images = default_max_images("Agfa35")
    /\ b_pc = "off"
    /\ serial_connection = "none"
    /\ image_count = 0
    /\ elapsed = 0
    /\ rx = <<>>
    /\ save_calls = <<>>
    /\ result = "pending"
    /\ valid_read = 0
    /\ rejected_since = FALSE

\* The streamer is not the program run.
StreamOff ==
    /\ app = "off"
    /\ ui_pc = "idle"
    /\ serial_port = "none"
    /\ streaming = FALSE
    /\ start_button = "disabled"
    /\ stop_button = "disabled"
    /\ exposure_frames = 1
    /\ exposure_buffer = <<>>
    /\ current_frame = [i \in 1..total_pixels |-> 0]
    /\ line = [t \in Loops |-> NoLine]
    /\ pc = [t \in Loops |-> "none"]
    /\ combined = [t \in Loops |-> NoCombined]

ExposureHistInit ==
    /\ accepted = <<>>
    /\ shown = <<>>
    /\ drawn_by = "none"

Init ==
    \/ BatchInit /\ BatchHistInit /\ StreamOff /\ StreamHistInit /\ ExposureHistInit
    \/ BatchOff /\ BatchHistInit /\ StreamInit /\ StreamHistInit /\ ExposureHistInit

Next == BatchNext \/ StreamNext

Spec == Init /\ [][Next]_vars

\* ------------------------------- the streamer, its averages traced to frames

\* The streamer as constructed, the history of its averages empty.
ReconfigureInit ==
    /\ BatchOff
    /\ BatchHistInit
    /\ StreamInit
    /\ StreamHistInit
    /\ ExposureHistInit

\* The streamer's steps; the mean, the clear and display, and update_exposure's
\* second statement record what went into each average.
ReconfigureNext ==
    \/ \E t \in Loops :
         \/ StreamStep(LoopStop(t))
         \/ StreamStep(LoopFail(t))
         \/ StreamStep(LoopRead(t))
         \/ StreamStep(Check(t))
         \/ StreamHStep(HMean(t))
         \/ StreamHStep(HFlush(t))
    \/ StreamStep(ConnectCamera)
    \/ StreamStep(StartStream)
    \/ StreamStep(StopStream)
    \/ StreamStep(UpdateExposureSet)
    \/ StreamHStep(HUpdateExposureClear)
    \/ StreamStep(Quit)

SpecReconfigure == ReconfigureInit /\ [][ReconfigureNext]_vars

\* ------------------------------------- one stream loop, no reconfiguration

\* Raw values at the edges of the scale (-257, -1, 255, 256, 65535, 65536),
\* then a ramp up to 67777.
Edges(n) ==
    [i \in 1..n |-> I(CASE i = 1 -> -257 [] i = 2 -> -1 [] i = 3 -> 255 [] i = 4 -> 256
                         [] i = 5 -> 65535 [] i = 6 -> 65536
                         [] OTHER -> (i - 1) * 2001 - 257)]

\* Frames with pixels 0..34, 1..35 and all 255, a frame of raw values on and
\* beyond the edges of the scale, and a record one value short.
ExposureLines ==
    LET n == total_pixels
    IN  { Frame("STREAM", Ramp(n, 0, 256)),
          Frame("STREAM", Ramp(n, 256, 256)),
          Frame("STREAM", Ramp(n, 65535, 0)),
          Frame("STREAM", Edges(n)),
          Frame("STREAM", Ramp(n - 1, 0, 256)) }

\* The streamer after update_exposure(k), connect_camera and start_stream: the
\* port is open, the first stream_loop thread is at the top of its loop.
ExposureInit ==
    /\ BatchOff
    /\ BatchHistInit
    /\ app = "running"
    /\ ui_pc = "idle"
    /\ serial_port = "open"
    /\ streaming = TRUE
    /\ start_button = "disabled"
    /\ stop_button = "normal"
    /\ exposure_frames \in ExposureInputs
    /\ exposure_buffer = <<>>
    /\ current_frame = [i \in 1..total_pixels |-> 0]
    /\ line = [t \in Loops |-> NoLine]
    /\ pc = [t \in Loops |-> IF t = 1 THEN "loop" ELSE "none"]
    /\ combined = [t \in Loops |-> NoCombined]
    /\ applied = exposure_frames
    /\ comb_info = [t \in Loops |-> NoInfo]
    /\ ExposureHistInit

\* The loop reads a line; the frame it appends, if any, is recorded.
XLoopReadFrom(t, lines) ==
    /\ UNCHANGED <<batch_vars, batch_hist, twin>>
    /\ Len(accepted) < MaxFrames
    /\ LoopReadFrom(t, lines)
    /\ accepted' = IF pc'[t] = "check"
                   THEN Append(accepted, stream_decode(line'[t]).val)
                   ELSE accepted
    /\ UNCHANGED <<shown, drawn_by, stream_hist>>

XLoopRead(t) == XLoopReadFrom(t, ExposureLines)

\* The loop clears the window and calls update_display: its argument is
\* recorded, and the thread that drew on the canvas.
XFlush(t) ==
    /\ HFlush(t)
    /\ shown' = Append(shown, current_frame')
    /\ drawn_by' = IF Len(combined[t]) = total_pixels THEN "stream_loop" ELSE drawn_by
    /\ UNCHANGED <<batch_vars, batch_hist, twin, accepted>>

ExposureNext ==
    \E t \in Loops :
        \/ XLoopRead(t)
        \/ StreamStep(Check(t))
        \/ StreamHStep(HMean(t))
        \/ XFlush(t)

SpecExposure == ExposureInit /\ [][ExposureNext]_vars

\* ------------------------------ one stream loop, numbers typed in the spinbox

\* The spinbox takes what is typed into it: from_ and to bound its arrows only.
TypedInputs == {-1, 0, 1, max_exposure_frames + 1}

\* The streamer as constructed (exposure_frames = 1), connected and streaming.
TypedInit ==
    /\ ExposureInit
    /\ exposure_frames = 1

\* A frame with pixels 0..34 and a record one value short.
TypedLines ==
    { Frame("STREAM", Ramp(total_pixels, 0, 256)),
      Frame("STREAM", Ramp(total_pixels - 1, 0, 256)) }

TypedNext ==
    \/ \E t \in Loops :
          \/ XLoopReadFrom(t, TypedLines)
          \/ StreamStep(Check(t))
          \/ StreamHStep(HMean(t))
          \/ XFlush(t)
    \/ StreamStep(UpdateExposureSetFrom(TypedInputs))
    \/ StreamHStep(HUpdateExposureClear)

SpecTyped == TypedInit /\ [][TypedNext]_vars

\* ------------------------------------- start and stop, room for two loops

\* The threads start_stream can have alive at once in this specification.
MaxRestartLoops == 2
RestartLoops == 1..MaxRestartLoops

\* The streamer after connect_camera: the port is open, Start Stream enabled,
\* no stream_loop thread yet.
RestartInit ==
    /\ BatchOff
    /\ BatchHistInit
    /\ app = "running"
    /\ ui_pc = "idle"
    /\ serial_port = "open"
    /\ streaming = FALSE
    /\ start_button = "normal"
    /\ stop_button = "disabled"
    /\ exposure_frames = 1
    /\ exposure_buffer = <<>>
    /\ current_frame = [i \in 1..total_pixels |-> 0]
    /\ line = [t \in RestartLoops |-> NoLine]
    /\ pc = [t \in RestartLoops |-> "none"]
    /\ combined = [t \in RestartLoops |-> NoCombined]
    /\ applied = exposure_frames
    /\ comb_info = [t \in RestartLoops |-> NoInfo]
    /\ ExposureHistInit

RestartNext ==
    \/ StreamStep(StartStream)
    \/ StreamStep(StopStream)
    \/ \E t \in RestartLoops :
          \/ StreamStep(LoopStop(t))
          \/ StreamStep(LoopFail(t))
          \/ StreamStep(LoopReadFrom(t, TypedLines))
          \/ StreamStep(Check(t))
          \/ StreamHStep(HMean(t))
          \/ StreamHStep(HFlush(t))

SpecRestart == RestartInit /\ [][RestartNext]_vars

\* The steps of stream_loop thread t that wait for nothing but the processor:
\* the test of `while self.streaming` that ends the loop, the length check, the
\* mean, the clear and display.
ReaderStep(t) ==
    \/ StreamStep(LoopStop(t))
    \/ StreamStep(Check(t))
    \/ StreamHStep(HMean(t))
    \/ StreamHStep(HFlush(t))

\* The same with every stream_loop thread scheduled fairly: a daemon thread
\* that can run does run, sleep(0.01) and a readline with a timeout return.
SpecRestartFair == SpecRestart /\ \A t \in RestartLoops : WF_vars(ReaderStep(t))

\* ------------------------------------ the downloader, its loop kept running

\* One pass of the collecting loop with no line waiting (in_waiting is 0):
\* sleep(0.01) and the while condition again.  Nothing of the session changes.
CollectIdle ==
    /\ b_pc = "collect"
    /\ LoopContinues(image_count, max_images)
    /\ rx = <<>>
    /\ idle_polls' = 1 - idle_polls
    /\ UNCHANGED <<batch_vars, ended_by, summary>>

PollInit == BatchInit /\ BatchHistInit /\ StreamOff /\ StreamHistInit /\ ExposureHistInit

PollNext ==
    \/ BatchNext
    \/ BatchHStep(CollectIdle)

\* The steps of download_images once the port is open: the program is one
\* thread that keeps running; what the device sends and whether a read raises
\* are the environment's.
HostStep ==
    \/ BatchStep(WaitPoll)
    \/ BatchHStep(HWaitTimeout)
    \/ BatchHStep(HCollect)
    \/ BatchHStep(CollectIdle)
    \/ BatchHStep(HCollectFull)
    \/ BatchHStep(HSummary)

SpecPollFair == PollInit /\ [][PollNext]_vars /\ WF_vars(HostStep)

\* ------------------------------------ the two downloaders, side by side

\* The kinds of line the device sends, and the line of each kind as the
\* camera of profile p writes it: the records have the profile's pixel count
\* and values beyond the profile's range.
TwinKinds == {"begin", "end", "noise", "banner", "record", "short", "bad", "end-in-frame"}

TwinLine(p, kind) ==
    LET n == pixels_per_image(p) IN
    CASE kind = "begin"  -> <<T("BEGIN")>>
      [] kind = "end"    -> <<T("Download END ok")>>
      [] kind = "noise"  -> <<T("")>>
      [] kind = "banner" -> <<T(ReadyBanner(p))>>
      [] kind = "record" -> Frame("IMAGE", OutOfRange(p, n))
      [] kind = "short"  -> Frame("IMAGE", InRange(p, n - 1))
      [] kind = "bad"    -> Frame("IMAGE", WithField(InRange(p, n), n, T("x")))
      [] OTHER           -> Frame("IMAGE", <<T("END")>>)

\* Kodak12Downloader as constructed, --max-images m applied.
TwinStart(m) ==
    [b_pc |-> "start", max_images |-> m, serial_connection |-> "none", image_count |-> 0,
     elapsed |-> 0, rx |-> <<>>, indices |-> <<>>, result |-> "pending"]

\* Kodak12's download_images returns r from inside its try block.
TwinReturn(k, r) ==
    [k EXCEPT !.result = r, !.serial_connection = disconnect(@), !.b_pc = "returned"]

\* Kodak12's connect().
TwinConnect(k, ok) ==
    IF k.b_pc # "start" THEN k
    ELSE IF ok THEN [k EXCEPT !.serial_connection = "open", !.b_pc = "wait"]
    ELSE [k EXCEPT !.b_pc = "returned", !.result = "False"]

\* One iteration of Kodak12's wait_for_begin that took d seconds.
TwinWaitPoll(k, d) ==
    IF k.b_pc # "wait" \/ WaitExpired(k.elapsed) THEN k
    ELSE IF k.rx # <<>> /\ Contains(Head(k.rx), "BEGIN")
         THEN [k EXCEPT !.rx = Tail(@), !.b_pc = "collect", !.image_count = 0, !.elapsed = 0]
         ELSE [k EXCEPT !.rx = IF @ # <<>> THEN Tail(@) ELSE @,
                        !.elapsed = Min(timeout, @ + d)]

\* Kodak12's wait_for_begin gives up.
TwinWaitTimeout(k) ==
    IF k.b_pc = "wait" /\ WaitExpired(k.elapsed) THEN TwinReturn(k, "False") ELSE k

\* One iteration of Kodak12's collecting loop with a line waiting; saved says
\* whether save_image returned or raised.
TwinCollect_Miscount(k, saved) ==
    IF k.b_pc # "collect" \/ ~LoopContinues(k.image_count, k.max_images) \/ k.rx = <<>>
    THEN k
    ELSE LET l == Head(k.rx)
             pixels == parse_image_data(l, "Kodak12")
             read == [k EXCEPT !.rx = Tail(@)]
         IN  IF Framed(l, "IMAGE")
             THEN [read EXCEPT !.indices = Append(@, k.image_count),
                               !.image_count = @ + 1]
             ELSE IF EndsSession(l) THEN [read EXCEPT !.b_pc = "summary"]
             ELSE read
TwinCollect(k, saved) ==
    IF k.b_pc # "collect" \/ ~LoopContinues(k.image_count, k.max_images) \/ k.rx = <<>>
    THEN k
    ELSE LET l == Head(k.rx)
             pixels == parse_image_data(l, "Kodak12")
             read == [k EXCEPT !.rx = Tail(@)]
         IN  IF Framed(l, "IMAGE")
             THEN IF Truthy(pixels)
                  THEN LET called == [read EXCEPT !.indices = Append(@, k.image_count)]
                       IN  IF saved THEN [called EXCEPT !.image_count = @ + 1]
                           ELSE TwinReturn(called, "False")
                  ELSE read
             ELSE IF EndsSession(l) THEN [read EXCEPT !.b_pc = "summary"]
             ELSE read

\* Kodak12's while condition fails.
TwinCollectFull(k) ==
    IF k.b_pc = "collect" /\ ~LoopContinues(k.image_count, k.max_images)
    THEN [k EXCEPT !.b_pc = "summary"] ELSE k

\* Kodak12 writes its summary, or fails to.
TwinSummary(k, written) ==
    IF k.b_pc = "summary" THEN TwinReturn(k, IF written THEN "True" ELSE "False") ELSE k

\* Kodak12's serial read raises.
TwinTransportError(k) ==
    IF k.b_pc \in {"wait", "collect"} THEN [TwinReturn(k, "False") EXCEPT !.elapsed = 0] ELSE k

\* Both programs are started with the same command line: with --max-images m,
\* or without it, each then keeping its own default.
TwinInit ==
    /\ profile = "Agfa35"
    /\ max_images \in (0..MaxImagesArg) \cup {default_max_images("Agfa35")}
    /\ b_pc = "start"
    /\ serial_connection = "none"
    /\ image_count = 0
    /\ elapsed = 0
    /\ rx = <<>>
    /\ save_calls = <<>>
    /\ result = "pending"
    /\ valid_read = 0
    /\ rejected_since = FALSE
    /\ ended_by = "pending"
    /\ summary = None
    /\ idle_polls = 0
    /\ twin = TwinStart(IF max_images \in 0..MaxImagesArg THEN max_images
                        ELSE default_max_images("Kodak12"))
    /\ StreamOff
    /\ StreamHistInit
    /\ ExposureHistInit

\* A step of the Agfa35 downloader with the Kodak12 one taking the same step
\* to state k.
TwinStep(A, k) == A /\ twin' = k /\ UNCHANGED <<stream_vars, stream_hist, exposure_hist>>

\* The same camera events reach both: a line of the same kind, the same time
\* spent in a poll, the same luck with the port, the disk and the cable.
TwinNext ==
    \/ TwinStep(HConnect, TwinConnect(twin, serial_connection' = "open"))
    \/ \E kind \in TwinKinds :
         TwinStep(DeviceSendFrom({TwinLine("Agfa35", kind)}) /\ UNCHANGED batch_hist,
                  [twin EXCEPT !.rx = Append(@, TwinLine("Kodak12", kind))])
    \/ \E d \in {0, 10} :
         TwinStep(WaitPoll /\ (b_pc' = "collect" \/ elapsed' = Min(timeout, elapsed + d))
                           /\ UNCHANGED batch_hist,
                  TwinWaitPoll(twin, d))
    \/ TwinStep(HWaitTimeout, TwinWaitTimeout(twin))
    \/ TwinStep(HCollect, TwinCollect(twin, b_pc' # "returned"))
    \/ TwinStep(HCollectFull, TwinCollectFull(twin))
    \/ TwinStep(HSummary, TwinSummary(twin, result' = "True"))
    \/ TwinStep(HTransportError, TwinTransportError(twin))

SpecTwin == TwinInit /\ [][TwinNext]_vars

\* ==================================================================== claims

NoLoopRunning == \A t \in Loops : ~Alive(t)

\* A data record whose count of non-blank fields is not the pixel count.
WrongCount(l, tag, n) == Framed(l, tag) /\ Cardinality(NonBlank(Body(l))) # n

\* A data record with a non-blank field that is no integer.
HasBadToken(l, tag) ==
    /\ Framed(l, tag)
    /\ LET body == Body(l) IN \E i \in NonBlank(body) : ~IsInt(body[i])

\* This step is the collecting loop of download_images reading the line Head(rx).
BatchReads == b_pc = "collect" /\ rx # <<>> /\ rx' = Tail(rx)

\* This step is loop thread t reading the line line'[t] and not failing.
StreamReads(t) ==
    /\ pc[t] = "loop" /\ pc'[t] \in {"loop", "check"}
    /\ streaming /\ streaming' /\ serial_port = "open"
    /\ ui_pc' = ui_pc /\ app' = app /\ start_button' = start_button
    /\ \A u \in Loops \ {t} : pc'[u] = pc[u] /\ line'[u] = line[u]

\* The step leaves the batch session as it was but for the line read.
BatchNoFrame == save_calls' = save_calls /\ image_count' = image_count /\ b_pc' = b_pc

\* The step appends nothing, displays nothing and leaves the thread at the top of its loop.
StreamNoFrame(t) ==
    /\ exposure_buffer' = exposure_buffer
    /\ current_frame' = current_frame
    /\ pc'[t] = "loop"

\* C1: the indices passed to save_image are 0, 1, 2, ... in order, with no gap
\* and no repeat, and while collecting the counter equals the number of calls
\* made: a rejected or unrecognized line consumes no index.
C1_IndicesContiguous ==
    /\ \A i \in 1..Len(save_calls) : save_calls[i].image_number = i - 1
    /\ b_pc = "collect" => image_count = Len(save_calls)

\* Image 0 was saved, then a line was dropped: the counter stands at 1 and the
\* next well-formed record is waiting.
C1_Witness ==
    /\ b_pc = "collect"
    /\ Len(save_calls) = 1
    /\ save_calls[1].image_number = 0
    /\ rejected_since
    /\ image_count = 1
    /\ rx # <<>>
    /\ ValidRecord(Head(rx), "IMAGE", pixels_per_image(profile))

\* C2: never more than max_images save_image calls; once max_images well-formed
\* IMAGE records were read after BEGIN and before END, exactly max_images
\* calls, whatever arrives later.
C2_AtMostMaxImages ==
    /\ Len(save_calls) <= max_images
    /\ valid_read >= max_images => Len(save_calls) = max_images

\* max_images images were saved, the session is over, and one more well-formed
\* IMAGE record has arrived.
C2_Witness ==
    /\ b_pc \in {"summary", "returned"}
    /\ max_images >= 1
    /\ Len(save_calls) = max_images
    /\ rx # <<>>
    /\ ValidRecord(Head(rx), "IMAGE", pixels_per_image(profile))

\* C3: a data record whose count of values differs from the pixel count yields
\* no frame: reading it appends nothing to the exposure window and displays
\* nothing (streamer), makes no save_image call and moves no counter (batch).
C3_WrongCountYieldsNoFrame ==
    [][ /\ (BatchReads /\ WrongCount(Head(rx), "IMAGE", pixels_per_image(profile)))
            => BatchNoFrame
        /\ \A t \in Loops :
            (StreamReads(t) /\ WrongCount(line'[t], "STREAM", total_pixels))
            => StreamNoFrame(t)
      ]_vars

\* A loop has read a record with one value too few while the window held a
\* frame, and stands at the top of its loop with the window as it was.
C3_Witness ==
    \E t \in Loops :
        /\ pc[t] = "loop"
        /\ line[t] = Frame("STREAM", Ramp(total_pixels - 1, 256, 768))
        /\ Len(exposure_buffer) = 1
        /\ exposure_frames = 2

\* C4: a data record with a field that is no integer, wherever the field
\* stands, is dropped whole: nothing is appended, displayed or saved.
C4_BadTokenDropsRecord ==
    [][ /\ (BatchReads /\ HasBadToken(Head(rx), "IMAGE")) => BatchNoFrame
        /\ \A t \in Loops :
            (StreamReads(t) /\ HasBadToken(line'[t], "STREAM")) => StreamNoFrame(t)
      ]_vars

\* A loop has read a record whose last value is no integer while the window
\* held a frame.
C4_Witness ==
    \E t \in Loops :
        /\ pc[t] = "loop"
        /\ line[t] = Frame("STREAM", WithField(Ramp(total_pixels, 256, 768), total_pixels, T("x")))
        /\ Len(exposure_buffer) = 1
        /\ exposure_frames = 2

IntFields(body) == SelectSeq(body, IsInt)
Saturate(v, hi) == IF v < 0 THEN 0 ELSE IF v > hi THEN hi ELSE v

\* C5: every IMAGE record of exactly pixels_per_image integers is decoded
\* (each one read led to a save_image call), and the pixels handed on are the
\* record's values in their order, each saturated to 0..max_pixel_value.
C5_ValidRecordClamped ==
    /\ valid_read = Len(save_calls)
    /\ \A j \in 1..Len(save_calls) :
         LET src == IntFields(Body(save_calls[j].line))
             n == pixels_per_image(profile)
         IN  /\ Len(save_calls[j].pixels) = n
             /\ Len(src) = n
             /\ \A i \in 1..n :
                  save_calls[j].pixels[i] = Saturate(src[i].v, max_pixel_value(profile))

\* A record with values below 0 and above the maximum was decoded and saved.
C5_Witness ==
    \E j \in 1..Len(save_calls) :
        /\ save_calls[j].line = Frame("IMAGE", OutOfRange(profile, pixels_per_image(profile)))
        /\ save_calls[j].pixels[1] = 0
        /\ save_calls[j].pixels[pixels_per_image(profile)] = max_pixel_value(profile)

\* The sum of pixel i over the frames of the j-th window of k accepted frames.
RECURSIVE WindowSum(_, _, _, _)
WindowSum(j, k, m, i) ==
    IF m = 0 THEN 0 ELSE accepted[(j - 1) * k + m][i] + WindowSum(j, k, m - 1, i)

\* round(s / k) as Python's round and numpy's rint compute it: to the nearest
\* integer, a tie to the even one.
RoundHalfEven(s, k) ==
    LET q == s \div k
        r == s % k
    IN  IF 2 * r < k THEN q
        ELSE IF 2 * r > k THEN q + 1
        ELSE IF q % 2 = 0 THEN q ELSE q + 1

\* With exposure count k and no reconfiguration: no more frames are displayed
\* than windows of k accepted frames are complete, and when the loop is back
\* at its top exactly as many.
OnePerWindow ==
    /\ Len(shown) <= Len(accepted) \div exposure_frames
    /\ (\A t \in Loops : pc[t] \in {"none", "loop"})
          => Len(shown) = Len(accepted) \div exposure_frames

\* C6, as claimed: k-1 accepted frames display nothing, the k-th displays
\* exactly one frame, and pixel i of it is round(mean of pixel i of the k frames).
C6_WindowMeanRounded ==
    /\ OnePerWindow
    /\ \A j \in 1..Len(shown) :
         /\ Len(shown[j]) = total_pixels
         /\ \A i \in 1..total_pixels :
              shown[j][i] = RoundHalfEven(WindowSum(j, exposure_frames, exposure_frames, i),
                                          exposure_frames)

\* C6, amended: k-1 accepted frames display nothing, the k-th displays exactly
\* one frame, and pixel i of it is the mean of pixel i of the k frames cut to
\* its integer part: the largest integer p with p * k <= the sum.
C6_WindowMeanTruncated ==
    /\ OnePerWindow
    /\ \A j \in 1..Len(shown) :
         /\ Len(shown[j]) = total_pixels
         /\ \A i \in 1..total_pixels :
              LET sum == WindowSum(j, exposure_frames, exposure_frames, i)
              IN  /\ shown[j][i] * exposure_frames <= sum
                  /\ sum < (shown[j][i] + 1) * exposure_frames

\* With k = 2 the frames 0..34 and 1..35 were accepted and one frame was
\* displayed: its second pixel is 1, of the mean 1.5.
C6_Witness ==
    /\ exposure_frames = 2
    /\ Len(accepted) = 2
    /\ accepted[1][2] = 1
    /\ accepted[2][2] = 2
    /\ Len(shown) = 1
    /\ shown[1][2] = 1
    /\ \A t \in Loops : pc[t] \in {"none", "loop"}

\* C7, as claimed: with a valid exposure count configured, the window never
\* holds more frames than exposure_frames.
C7_WindowWithinExposure ==
    exposure_frames \in 1..max_exposure_frames => Len(exposure_buffer) <= exposure_frames

\* C8, as claimed: a frame displayed after an update_exposure(n) call completed
\* is the mean of exactly n frames, all of them accepted after that call.
C8_AverageAfterReconfigure ==
    [][\A t \in Loops :
          (pc[t] = "flush" /\ pc'[t] # "flush" /\ applied # 0)
              => (comb_info[t].n = applied /\ ~comb_info[t].stale)]_vars

C10_FlagClearedWhenNoLoop == NoLoopRunning => ~streaming

\* This step is wait_for_begin reading the line Head(rx).
WaitReads == b_pc = "wait" /\ rx # <<>> /\ rx' = Tail(rx)

\* The line has BEGIN somewhere in it.
SaysBegin(l) == \E i \in 1..Len(l) : l[i] \in {T("BEGIN"), T("Ready BEGIN now")}

\* C12: the downloader goes from waiting to collecting only by reading a line
\* that has BEGIN in it, and does so on every such line; any other line read
\* while waiting is dropped: no save_image call, the session goes on waiting.
C12_CollectingOnlyOnBegin ==
    [][ /\ (b_pc = "wait" /\ b_pc' = "collect") => (WaitReads /\ SaysBegin(Head(rx)))
        /\ (WaitReads /\ SaysBegin(Head(rx))) => b_pc' = "collect"
        /\ (WaitReads /\ ~SaysBegin(Head(rx)))
             => /\ b_pc' = "wait"
                /\ save_calls' = <<>>
                /\ result' = "pending"
                /\ ended_by' = "pending"
                /\ serial_connection' = "open"
      ]_vars

\* While waiting a line was read and dropped, nothing was saved, and the line
\* `Ready BEGIN now` is the next to be read.
C12_Witness ==
    /\ b_pc = "wait"
    /\ rejected_since
    /\ save_calls = <<>>
    /\ result = "pending"
    /\ rx = << <<T("Ready BEGIN now")>> >>

\* The line has END somewhere in it.
SaysEnd(l) == \E i \in 1..Len(l) : l[i] \in {T("END"), T("Download END ok")}

\* C13 as stated: while collecting, every line read that has END in it ends
\* the session, a line framed as an IMAGE record included.
C13_AnyEndLineEndsSession ==
    [][(BatchReads /\ SaysEnd(Head(rx))) => b_pc' = "summary"]_vars

\* C13 as the code has it: while collecting, a line read that has END in it and
\* is not framed as an IMAGE record ends the session, and after it no line is
\* read and no save_image call is made; a line framed as an IMAGE record with
\* END in it is a record that does not parse: dropped, the session goes on.
C13_EndOutsideRecordEndsSession ==
    [][ /\ (BatchReads /\ SaysEnd(Head(rx)) /\ ~Framed(Head(rx), "IMAGE"))
             => (b_pc' = "summary" /\ save_calls' = save_calls)
        /\ (BatchReads /\ SaysEnd(Head(rx)) /\ Framed(Head(rx), "IMAGE"))
             => (b_pc' = "collect" /\ save_calls' = save_calls)
        /\ ended_by = "End-marker"
             => /\ Len(rx') >= Len(rx)
                /\ save_calls' = save_calls
                /\ ended_by' = "End-marker"
                /\ b_pc' \in {"summary", "returned"}
      ]_vars

\* The session saved an image, was ended by a line with END in it and has
\* returned True, with a line the device sent afterwards left unread.
C13_Witness ==
    /\ ended_by = "End-marker"
    /\ b_pc = "returned"
    /\ result = "True"
    /\ Len(save_calls) = 1
    /\ rx # <<>>

\* C14: when wait_for_begin gives up, the 30 s have passed, download_images
\* has returned False, no save_image call was made, no download summary was
\* written and the serial connection is closed.
C14_BeginTimeoutFails ==
    ended_by = "Begin-timeout"
        => /\ elapsed >= timeout
           /\ b_pc = "returned"
           /\ result = "False"
           /\ save_calls = <<>>
           /\ ~summary.some
           /\ serial_connection = "closed"

\* The wait ended on the deadline after lines without BEGIN were read and
\* dropped.
C14_Witness ==
    /\ ended_by = "Begin-timeout"
    /\ rejected_since
    /\ rx = <<>>
    /\ result = "False"

\* C15: once download_images has returned after opening the serial connection
\* the connection is closed, however the session ended (deadline, END line,
\* max_images, an exception from the serial read, an exception from
\* save_image); after an exception from the serial read or from save_image it
\* has returned False and reads no more.
C15_ClosedOnEveryExit ==
    /\ (b_pc = "returned" /\ ended_by # "connect-failed")
           => /\ serial_connection = "closed"
              /\ ended_by \in {"Begin-timeout", "End-marker", "max-images-reached",
                               "channel-error", "persist-error"}
    /\ ended_by \in {"channel-error", "persist-error"}
           => (b_pc = "returned" /\ result = "False" /\ ~summary.some)

\* The serial read raised after one image was saved.
C15_Witness ==
    /\ ended_by = "channel-error"
    /\ Len(save_calls) = 1
    /\ b_pc = "returned"
    /\ serial_connection = "closed"

\* The cause of the session's end that download_images hands to its caller:
\* the ended_by entry of the summary, when a summary was written and has one.
ReportedCause ==
    IF summary.some /\ "ended_by" \in DOMAIN summary.val
    THEN summary.val.ended_by
    ELSE "unreported"

\* C18 as stated: when download_images has returned after waiting for BEGIN,
\* its result names the cause of the end (deadline, END line, max_images,
\* channel error) and carries the two counts, both the number of save_image
\* calls.
C18_ResultReportsCause ==
    (b_pc = "returned" /\ ended_by \in {"Begin-timeout", "End-marker",
                                         "max-images-reached", "channel-error"})
        => /\ ReportedCause = ended_by
           /\ summary.some
           /\ summary.val.total_images_found = Len(save_calls)
           /\ summary.val.images_downloaded = Len(save_calls)

\* C18 as the code has it: download_images returns a truth value only.  It
\* returns True only after an END line or max_images, with the summary written
\* and both counts of the summary equal to the number of save_image calls; in
\* every other case (deadline, exception from the serial read, from save_image
\* or from writing the summary, connection failure) it returns False and no
\* summary is written.
C18_TrueWithCountsOrFalse ==
    b_pc = "returned"
        => /\ result \in {"True", "False"}
           /\ result = "True"
                => /\ ended_by \in {"End-marker", "max-images-reached"}
                   /\ summary.some
                   /\ DOMAIN summary.val = {"images_downloaded", "total_images_found"}
                   /\ summary.val.total_images_found = Len(save_calls)
                   /\ summary.val.images_downloaded = Len(save_calls)
           /\ result = "False" => ~summary.some
           /\ ended_by \in {"Begin-timeout", "channel-error", "persist-error",
                            "connect-failed"} => result = "False"

\* The session saved two images, stopped at max_images and returned True with
\* its summary.
C18_Witness ==
    /\ b_pc = "returned"
    /\ result = "True"
    /\ ended_by = "max-images-reached"
    /\ Len(save_calls) = 2
    /\ summary.some

\* C20: update_exposure never clears the window between the reader's length
\* check and its averaging: the reader never takes the mean of an empty window.
C20_MeanNeverOverEmptyWindow ==
    \A t \in DOMAIN pc : pc[t] = "mean" => exposure_buffer # <<>>

\* The raw value clamped to 0..65535 first and divided by 256 second.
ClampThenDivide(v) == (IF v < 0 THEN 0 ELSE IF v > 65535 THEN 65535 ELSE v) \div 256

\* C19: every pixel of every frame the stream loop accepted is in 0..255, and
\* the frame accepted from a line is, pixel by pixel, the line's raw value
\* clamped to 0..65535 and then divided by 256, for raw values below 0 and
\* above 65535 too.
C19_DivideThenClampIsClampThenDivide ==
    /\ \A k \in 1..Len(accepted) : \A i \in 1..total_pixels : accepted[k][i] \in 0..255
    /\ \A t \in DOMAIN pc :
         pc[t] = "check"
           => /\ accepted # <<>>
              /\ accepted[Len(accepted)]
                   = [i \in 1..total_pixels |-> ClampThenDivide(Body(line[t])[i].v)]

\* The loop has just accepted the frame of raw values -257, -1, 255, 256,
\* 65535, 65536, ...: its pixels are 0, 0, 0, 1, 255, 255, ...
C19_Witness ==
    /\ pc[1] = "check"
    /\ Body(line[1])[1].v = -257
    /\ Body(line[1])[2].v = -1
    /\ Body(line[1])[6].v = 65536
    /\ accepted # <<>>
    /\ SubSeq(accepted[Len(accepted)], 1, 6) = <<0, 0, 0, 1, 255, 255>>
    /\ accepted[Len(accepted)][total_pixels] = 255

\* C16: update_exposure takes no count outside 1..max_exposure_frames:
\* exposure_frames is in that range in every state.
C16_ExposureCountInRange == exposure_frames \in 1..max_exposure_frames

\* C11: whatever the order of start_stream and stop_stream calls, at most one
\* stream_loop thread is alive.
C11_AtMostOneLoop == Cardinality({t \in DOMAIN pc : Alive(t)}) <= 1

\* C17: once stop_stream has cleared the flag, a stream_loop thread that is
\* alive exits unless start_stream sets the flag again; and a thread that an
\* exception has ended stays ended: its place is taken again only by a thread
\* that start_stream starts.
C17_LoopExitsAfterStop ==
    /\ \A t \in RestartLoops : (~streaming /\ Alive(t)) ~> (~Alive(t) \/ streaming)
    /\ [][\A t \in RestartLoops :
            (Exited(t) /\ pc'[t] # pc[t])
                => (pc'[t] = "loop" /\ start_button = "normal" /\ streaming')]_vars

\* stop_stream has cleared the flag and the first thread has left its loop at
\* `while self.streaming`, while the second has ended on an exception.
C17_Witness ==
    /\ ~streaming
    /\ stop_button = "disabled"
    /\ pc[1] = "stopped"
    /\ pc[2] = "failed"

\* C21: a line that is no well-formed record is dropped and changes nothing.
\* Read by a stream loop, it leaves exposure_buffer, current_frame and the
\* streaming flag as they were and the thread at the top of its loop; read by
\* the collecting loop of download_images, and having no END in it, it leaves
\* image_count as it was, makes no save_image call and the loop goes on.
C21_MalformedLineChangesNothing ==
    [][ /\ (BatchReads /\ ~ValidRecord(Head(rx), "IMAGE", pixels_per_image(profile))
                       /\ ~SaysEnd(Head(rx)))
             => /\ image_count' = image_count
                /\ save_calls' = save_calls
                /\ b_pc' = "collect"
                /\ result' = "pending"
                /\ serial_connection' = "open"
        /\ \A t \in DOMAIN pc :
             (StreamReads(t) /\ ~ValidRecord(line'[t], "STREAM", total_pixels))
               => /\ exposure_buffer' = exposure_buffer
                  /\ current_frame' = current_frame
                  /\ streaming' = streaming
                  /\ pc'[t] = "loop"
      ]_vars

\* A stream loop has read a record framed by IMAGE, not STREAM, while the
\* window held one frame: the window still holds it and the loop goes on.
C21_Witness ==
    /\ streaming
    /\ pc[1] = "loop"
    /\ Framed(line[1], "IMAGE")
    /\ Len(exposure_buffer) = 1
    /\ exposure_frames = 2

\* C22: no stream_loop thread runs a canvas update: update_display's widget
\* calls are made on the Tk thread only.
C22_NoDisplayOnReaderThread == drawn_by # "stream_loop"

\* C23: once an END line or max_images has ended the session, no step reads a
\* line, moves image_count or calls save_image, and download_images does not
\* go back to waiting or collecting: a BEGIN line that arrives later stays
\* unread.  A BEGIN line read while collecting leaves image_count and the
\* calls made as they were, and the collecting goes on.
C23_CompleteIsTerminal ==
    [][ /\ ended_by \in {"End-marker", "max-images-reached"}
             => /\ image_count' = image_count
                /\ save_calls' = save_calls
                /\ Len(rx') >= Len(rx)
                /\ b_pc' \in {"summary", "returned"}
                /\ ended_by' = ended_by
        /\ b_pc = "returned" => b_pc' = "returned"
        /\ (BatchReads /\ SaysBegin(Head(rx)))
             => /\ image_count' = image_count
                /\ save_calls' = save_calls
                /\ b_pc' = "collect"
      ]_vars

\* max_images was reached with one image saved, download_images has returned,
\* and a BEGIN line sent afterwards lies unread.
C23_Witness ==
    /\ ended_by = "max-images-reached"
    /\ b_pc = "returned"
    /\ image_count = 1
    /\ Len(save_calls) = 1
    /\ rx = << <<T("BEGIN")>> >>

\* C24: once BEGIN was received download_images returns, whatever the device
\* sends or fails to send afterwards.
C24_CollectingReturns == (b_pc = "collect") ~> (b_pc = "returned")

\* The indices of the save_image calls made so far, in order.
PersistIndices == [i \in 1..Len(save_calls) |-> save_calls[i].image_number]

\* The two downloaders are at the same place, with the same counter, the same
\* port state and result, and have made the same save_image calls.
TwinsAgree ==
    /\ twin.b_pc = b_pc
    /\ twin.image_count = image_count
    /\ twin.indices = PersistIndices
    /\ twin.serial_connection = serial_connection
    /\ twin.result = result

\* C25 as stated: run side by side on the same lines, each with the pixel
\* count, the maximum value and the max_images of its own profile, the two
\* downloaders go through the same control states and make the same
\* save_image calls.
C25_TwinsAgreeOwnMaxImages == TwinsAgree

\* C25 as the code has it: they do whenever both run with the same max_images.
C25_TwinsAgreeSameMaxImages == twin.max_images = max_images => TwinsAgree

\* With the same max_images both have saved two images out of records of
\* their own pixel count, clamped to their own range, and have returned True.
C25_Witness ==
    /\ twin.max_images = max_images
    /\ b_pc = "returned" /\ twin.b_pc = "returned"
    /\ result = "True" /\ twin.result = "True"
    /\ twin.indices = <<0, 1>>
    /\ Len(save_calls) = 2
    /\ Len(save_calls[1].pixels) = 35
    /\ save_calls[1].pixels[35] = 65535

\* C26: a STREAM record whose non-blank fields are exactly total_pixels
\* integers yields a frame, empty fields or not, as an IMAGE record of the same
\* fields does in the downloader: the loop that reads it appends a frame.
C26_StreamSkipsEmptyTokens ==
    [][\A t \in DOMAIN pc :
         (StreamReads(t) /\ serial_port' = serial_port
                         /\ ValidRecord(line'[t], "STREAM", total_pixels))
           => /\ pc'[t] = "check"
              /\ Len(exposure_buffer') = Len(exposure_buffer) + 1
      ]_vars

\* C27: while the application runs with the streaming flag set and a
\* stream_loop thread alive, serial_port is an open port.
C27_PortOpenWhileLoopActive ==
    (app = "running" /\ streaming /\ \E t \in DOMAIN pc : Alive(t)) => serial_port = "open"

====
